---- MODULE Spec2Model ----
(***************************************************************************)
(* A model of pysimbie/dataset.py: the two orbit-thickness parsers          *)
(* (NASAJPLOrbitThickness, AWIOrbitThickness) and the Julian-day calendar   *)
(* converter caldate_1900 with AWIOrbitThickness._get_datetime.             *)
(*                                                                          *)
(* The source is Python 2 (it calls long()): int / int is floor division,   *)
(* round() rounds half away from zero, math.floor returns a float.          *)
(*                                                                          *)
(* Real numbers are modelled in fixed point.  A Julian value is the record  *)
(* [day, sec, ms]: an integer day, plus sec whole seconds and ms whole      *)
(* milliseconds of the day (value = day + (sec + ms/1000)/86400).  After    *)
(* the 5e-9 day epsilon (= 432 microseconds) the value is [day, sec, us].   *)
(* The arithmetic is exact; the few tens of microseconds of binary rounding *)
(* of a double near 2.4e6 days are not modelled.                            *)
(***************************************************************************)
EXTENDS Integers, Sequences, FiniteSets, TLC

VARIABLES source, file, self, pc, outcome, returned, julian, cal, stamp

vars == <<source, file, self, pc, outcome, returned, julian, cal, stamp>>

(***************************************************************************)
(* Bounds of the model                                                      *)
(***************************************************************************)
\* content flags at positions MaxSlot..44 are zero in the files of the model
MaxSlot == 8
\* a binary file holds at most MaxRecs whole records
MaxRecs == 3
\* a text file holds at most MaxLines lines (header lines included)
MaxLines == 5
\* day counts 0..MaxDay, and JulianThreshold..JulianThreshold+MaxDay
MaxDay == 1500

(***************************************************************************)
(* Calendar converter: leapyear, caldate_1900                               *)
(***************************************************************************)
JulianThreshold == 2440000
JulianOffset1900 == 2415020
EpsilonMicros == 432
GregorianOrigin == 1721119
Cycle400 == 146097
Cycle4 == 1461
Cycle5Months == 153
SecondsPerDay == 86400
MicrosPerSecond == 1000000
MINYEAR == 1
MAXYEAR == 9999

leapyear(year) ==
    IF year % 4 = 0
    THEN IF year % 100 = 0
         THEN IF year % 400 = 0 THEN 1 ELSE 0
         ELSE 1
    ELSE 0

ivd == <<1, 32, 60, 91, 121, 152, 182, 213, 244, 274, 305, 335, 366>>
ivdl == <<1, 32, 61, 92, 122, 153, 183, 214, 245, 275, 306, 336, 367>>

\* Python 2 round() of the non-negative value n + us/1e6: half away from zero
Round(n, us) == IF 2 * us >= MicrosPerSecond THEN n + 1 ELSE n

\* lines 339-340: values below the threshold are counted from 1900
Rebase(day) ==
    IF day < JulianThreshold THEN day + JulianOffset1900 + 1 ELSE day

\* lines 338-342: JulDay = Julian (+ offset) + 5.0e-9, as [day, sec, us]
JulDayOf(Julian) ==
    [day |-> Rebase(Julian.day),
     sec |-> Julian.sec,
     us  |-> Julian.ms * 1000 + EpsilonMicros]

GregorianDateNoCentury(jd) ==
    LET j1   == jd - GregorianOrigin
        jin3 == 4 * j1 + 3
        j2   == jin3 \div Cycle4
        d1   == ((jin3 - Cycle4 * j2) + 4) \div 4
        jin4 == 5 * d1 - 3
        m    == jin4 \div Cycle5Months
        d2   == ((jin4 - Cycle5Months * m) + 5) \div 5
    IN  IF m < 10
        THEN [year |-> j2, month |-> m + 3, day |-> d2]
        ELSE [year |-> j2 + 1, month |-> m - 9, day |-> d2]

\* lines 344-361: floor(JulDay) to Gregorian year, month, day
GregorianDate(jd) ==
    LET j1   == jd - GregorianOrigin
        jin1 == 4 * j1 - 1
        y1   == jin1 \div Cycle400
        j2   == jin1 - Cycle400 * y1
        jin2 == j2 \div 4
        jin3 == 4 * jin2 + 3
        j3   == jin3 \div Cycle4
        d1   == ((jin3 - Cycle4 * j3) + 4) \div 4
        jin4 == 5 * d1 - 3
        m    == jin4 \div Cycle5Months
        d2   == ((jin4 - Cycle5Months * m) + 5) \div 5
        y2   == y1 * 100 + j3
    IN  IF m < 10
        THEN [year |-> y2, month |-> m + 3, day |-> d2]
        ELSE [year |-> y2 + 1, month |-> m - 9, day |-> d2]

\* lines 362-367
YearDay(yr, mo, d) ==
    IF leapyear(yr) = 1 THEN ivdl[mo] + d - 1 ELSE ivd[mo] + d - 1

\* lines 368-374: secs = (JulDay % 1)*24*3600 is jul.sec + jul.us/1e6;
\* msec is the fraction of JulDay*24*3600, in microseconds
TimeOfDay(jul) ==
    LET sec == Round(jul.sec, jul.us)
    IN  [hour   |-> sec \div 3600,
         minute |-> (sec % 3600) \div 60,
         second |-> Round(sec % 60, 0),
         msec   |-> jul.us]

caldate_1900(Julian) ==
    LET jul == JulDayOf(Julian)
        ymd == GregorianDate(jul.day)
        tod == TimeOfDay(jul)
    IN  [year    |-> ymd.year,
         yearday |-> YearDay(ymd.year, ymd.month, ymd.day),
         month   |-> ymd.month,
         day     |-> ymd.day,
         hour    |-> tod.hour,
         minute  |-> tod.minute,
         second  |-> tod.second,
         msec    |-> tod.msec]

(***************************************************************************)
(* The datetime library, as far as the code uses it                         *)
(***************************************************************************)
\* the proleptic Gregorian calendar of datetime
IsLeap(y) == y % 4 = 0 /\ (y % 100 # 0 \/ y % 400 = 0)

DaysInMonth(y, m) ==
    IF m = 2 THEN (IF IsLeap(y) THEN 29 ELSE 28)
    ELSE IF m \in {4, 6, 9, 11} THEN 30 ELSE 31

RECURSIVE DaysBeforeMonth(_, _)
DaysBeforeMonth(y, m) ==
    IF m <= 1 THEN 0 ELSE DaysBeforeMonth(y, m - 1) + DaysInMonth(y, m - 1)

\* Julian day number of the proleptic Gregorian date y-m-d (1721426 = 0001-01-01)
DateToJDN(y, m, d) ==
    LET p == y - 1
    IN  1721425 + 365 * p + (p \div 4) - (p \div 100) + (p \div 400)
        + DaysBeforeMonth(y, m) + d

\* datetime(year, month, day, hour, minute, second, microsecond) accepts these
DatetimeArgsValid(c) ==
    /\ c.year \in MINYEAR..MAXYEAR
    /\ c.month \in 1..12
    /\ c.day \in 1..DaysInMonth(c.year, c.month)
    /\ c.hour \in 0..23
    /\ c.minute \in 0..59
    /\ c.second \in 0..59
    /\ c.msec \in 0..(MicrosPerSecond - 1)

NoDatetime == [err |-> "None", day |-> 0, sec |-> 0, us |-> 0]

\* lines 260-268: a datetime is [day (Julian day number), sec of day, us];
\* the constructor raises ValueError for a field out of range
MakeDatetime(c) ==
    IF ~DatetimeArgsValid(c)
    THEN [err |-> "ValueError", day |-> 0, sec |-> 0, us |-> 0]
    ELSE LET s == c.hour * 3600 + c.minute * 60 + c.second + 12 * 3600
         IN  [err |-> "",
              day |-> DateToJDN(c.year, c.month, c.day) + (s \div SecondsPerDay),
              sec |-> s % SecondsPerDay,
              us  |-> c.msec]

\* lines 258-269
get_datetime(Julian) == MakeDatetime(caldate_1900(Julian))

(***************************************************************************)
(* numpy arrays: [ndim, vals]; a cell never written holds Uninit            *)
(***************************************************************************)
Uninit == -1
NoneInt == -1
NoLen == -1
NoneArray == [ndim |-> -1, vals |-> <<>>]

Array1D(vals) == [ndim |-> 1, vals |-> vals]

\* np.squeeze of a one-dimensional array: an axis of length one is removed
Squeeze(col) == [ndim |-> IF Len(col) = 1 THEN 0 ELSE 1, vals |-> col]

\* the n_records property: len(self.longitude); NoLen stands for TypeError
n_records(s) ==
    IF s.longitude.ndim = 1 THEN Len(s.longitude.vals) ELSE NoLen

parameter_list ==
    <<"timestamp", "longitude", "latitude", "ice_density",
      "snow_density", "snow_depth", "sea_ice_thickness">>

\* the object after OrbitThicknessBaseClass.__init__, with the attributes the
\* subclasses add later still unset
NewObject ==
    [filename |-> <<>>, orbit |-> NoneInt,
     lon_limit |-> FALSE, lat_limit |-> FALSE, content_flags |-> <<>>,
     file_size |-> NoneInt, n_datagroups |-> NoneInt, nrecs |-> NoneInt,
     record_byte_size |-> NoneInt, registered_datagroups |-> <<>>,
     data_allocated |-> FALSE, data |-> <<>>, n_read |-> 0,
     attributes |-> <<>>,
     timestamp |-> NoneArray, longitude |-> NoneArray, latitude |-> NoneArray,
     sea_ice_thickness |-> NoneArray, ice_density |-> NoneArray,
     snow_depth |-> NoneArray, snow_density |-> NoneArray]

(***************************************************************************)
(* AWIOrbitThickness: the binary record decoder                             *)
(***************************************************************************)
header_size_bytes == 106
datagroup_byte_size == 8
NFlags == 45
LimitsEnd == 16

\* field definitions: the keys of file_def["output"], in file order
FieldDefs ==
    { <<"time", "lon", "lat", "rho_i", "rho_s", "sd", "sit", "frb">>,
      <<"frb", "sit", "sd", "rho_s", "rho_i", "lat", "lon", "time">>,
      <<"time", "lon", "lat">> }

\* file names, split at "_" after file_basename; the second token is the orbit
FileNames == { <<"CS2", "021093", "B001">>, <<"CS2", "orbit">>, <<"track">> }

OrbitNumber(token) == IF token = "021093" THEN 21093 ELSE NoneInt

\* the time values a record can hold, by sample id
JulianSamples ==
    <<[day |-> 41728, sec |-> 2319, ms |-> 250],
      [day |-> 41728, sec |-> 86399, ms |-> 600]>>

ShortSizes == {0, 12, 50, 105}
TailBytes == {0, 3}

\* the 45 content flags of a header whose nonzero flags are at `active`
ContentFlags(active) ==
    [p \in 0..(NFlags - 1) |->
        IF p \in active THEN (IF p % 2 = 0 THEN 1 ELSE -1) ELSE 0]

FileSizes(k) ==
    ShortSizes \cup
    { header_size_bytes + r * k * datagroup_byte_size + t :
        r \in 0..MaxRecs, t \in TailBytes }

\* a binary file: name tokens, size, header flags, field definition
BinaryFile(n, sz, a, fd) ==
    [name |-> n, size |-> sz, flags |-> ContentFlags(a), fieldDef |-> fd,
     lines |-> <<>>]

RECURSIVE WhereNonzero(_, _)
WhereNonzero(flags, p) ==
    IF p >= NFlags THEN <<>>
    ELSE (IF flags[p] # 0 THEN <<p>> ELSE <<>>) \o WhereNonzero(flags, p + 1)

\* line 253: np.where(self.content_flags.astype(bool))[0]
get_datagroup_indices(s) == WhereNonzero(s.content_flags, 0)

Min(S) == CHOOSE x \in S : \A y \in S : x <= y

RegisteredByColumn(keys, idx) ==
    LET last == IF Len(idx) <= Len(keys) THEN Len(idx) ELSE Len(keys)
    IN  [name \in {keys[i] : i \in 1..last} |->
            (CHOOSE i \in 1..last : keys[i] = name) - 1]

\* lines 243-246: the names registered, each with its matrix column; the loop
\* stops with IndexError at the first flag position the field definition lacks
Registered(keys, idx) ==
    LET bad  == {i \in 1..Len(idx) : idx[i] >= Len(keys)}
        last == IF bad = {} THEN Len(idx) ELSE Min(bad) - 1
    IN  [name \in {keys[idx[i] + 1] : i \in 1..last} |->
            (CHOOSE i \in 1..last : keys[idx[i] + 1] = name) - 1]

NRecsNoHeader(size, k) == size \div (k * datagroup_byte_size)

\* lines 238-239 (Python 2: int / int floors)
NRecs(size, k) == (size - header_size_bytes) \div (k * datagroup_byte_size)

\* lines 209-211
get_datagroup(s, tag) ==
    LET index == s.registered_datagroups[tag]
    IN  Squeeze([r \in 1..Len(s.data) |-> s.data[r][index + 1]])

Fail(err) ==
    /\ pc' = "done"
    /\ outcome' = err
    /\ returned' = FALSE

Goto(label) ==
    /\ pc' = label
    /\ UNCHANGED <<outcome, returned>>

\* lines 175-184
AWIParseFilename ==
    /\ source = "awi"
    /\ pc = "parse_filename"
    /\ IF Len(file.name) < 2
       THEN Fail("IndexError") /\ UNCHANGED self
       ELSE IF OrbitNumber(file.name[2]) = NoneInt
       THEN Fail("ValueError") /\ UNCHANGED self
       ELSE /\ self' = [self EXCEPT !.orbit = OrbitNumber(file.name[2])]
            /\ Goto("parse_header")
    /\ UNCHANGED <<source, file, julian, cal, stamp>>

HeaderFieldsReadLenient(size) ==
    IF size < 8 THEN 0 ELSE IF size < LimitsEnd THEN 1 ELSE 3

\* lines 215-218: f.read(106) returns what the file holds, and each
\* struct.unpack needs its full slice; the number of header fields unpacked
HeaderFieldsRead(size) ==
    IF size < 8 THEN 0
    ELSE IF size < LimitsEnd THEN 1
    ELSE IF size < header_size_bytes THEN 2
    ELSE 3

\* lines 213-218
AWIParseHeader ==
    /\ source = "awi"
    /\ pc = "parse_header"
    /\ LET n == HeaderFieldsRead(file.size)
       IN  /\ self' = [self EXCEPT
                  !.lon_limit = (n >= 1),
                  !.lat_limit = (n >= 2),
                  !.content_flags = IF n >= 3 THEN file.flags ELSE <<>>]
           /\ IF n < 3 THEN Fail("struct.error") ELSE Goto("get_n_records")
    /\ UNCHANGED <<source, file, julian, cal, stamp>>

\* lines 235-240
AWIGetNRecords ==
    /\ source = "awi"
    /\ pc = "get_n_records"
    /\ LET k == Len(get_datagroup_indices(self))
       IN  IF k * datagroup_byte_size = 0
           THEN /\ Fail("ZeroDivisionError")
                /\ self' = [self EXCEPT !.file_size = file.size, !.n_datagroups = k]
           ELSE /\ self' = [self EXCEPT !.file_size = file.size,
                                        !.n_datagroups = k,
                                        !.nrecs = NRecs(file.size, k),
                                        !.record_byte_size = k * datagroup_byte_size]
                /\ Goto("construct_datagroups")
    /\ UNCHANGED <<source, file, julian, cal, stamp>>

\* lines 242-250
AWIConstructDatagroups ==
    /\ source = "awi"
    /\ pc = "construct_datagroups"
    /\ LET idx == get_datagroup_indices(self)
           reg == Registered(file.fieldDef, idx)
       IN  IF \E i \in 1..Len(idx) : idx[i] >= Len(file.fieldDef)
           THEN /\ Fail("IndexError")
                /\ self' = [self EXCEPT !.registered_datagroups = reg]
           ELSE IF self.nrecs < 0
           THEN /\ Fail("ValueError")
                /\ self' = [self EXCEPT !.registered_datagroups = reg]
           ELSE /\ self' = [self EXCEPT
                        !.registered_datagroups = reg,
                        !.data_allocated = TRUE,
                        !.data = [r \in 1..self.nrecs |->
                                     [c \in 1..self.n_datagroups |-> Uninit]]]
                /\ Goto("parse_content")
    /\ UNCHANGED <<source, file, julian, cal, stamp>>

\* lines 226-228: one turn of the loop; the record read holds v in every field
AWIReadRecord ==
    /\ source = "awi"
    /\ pc = "parse_content"
    /\ self.n_read < self.nrecs
    /\ LET left == file.size - header_size_bytes
                       - self.n_read * self.record_byte_size
       IN  IF left < self.record_byte_size
           THEN Fail("struct.error") /\ UNCHANGED self
           ELSE /\ \E v \in 1..Len(JulianSamples) :
                      self' = [self EXCEPT
                          !.data[self.n_read + 1] =
                              [c \in 1..self.n_datagroups |-> v],
                          !.n_read = self.n_read + 1]
                /\ Goto("parse_content")
    /\ UNCHANGED <<source, file, julian, cal, stamp>>

\* lines 226, 229: the loop ends
AWIParseContentEnd ==
    /\ source = "awi"
    /\ pc = "parse_content"
    /\ self.n_read >= self.nrecs
    /\ Goto("create_attributes")
    /\ UNCHANGED <<source, file, self, julian, cal, stamp>>

\* lines 231-233
AWICreateAttributes ==
    /\ source = "awi"
    /\ pc = "create_attributes"
    /\ self' = [self EXCEPT !.attributes =
                   [name \in DOMAIN self.registered_datagroups |->
                       get_datagroup(self, name)]]
    /\ Goto("construct_data_groups")
    /\ UNCHANGED <<source, file, julian, cal, stamp>>

datagroup_tags == <<"time", "lon", "lat", "rho_i", "rho_s", "sd", "sit">>

\* lines 198-207: the object and the error ("" for none) construct_data_groups
\* ends with; the assignments made before an error stay
ConstructDataGroups(s) ==
    LET reg     == DOMAIN s.registered_datagroups
        datenum == get_datagroup(s, "time")
        stamps  == [i \in 1..Len(datenum.vals) |->
                       get_datetime(JulianSamples[datenum.vals[i]])]
        missing == {i \in 2..7 : datagroup_tags[i] \notin reg}
        stop    == IF missing = {} THEN 8 ELSE Min(missing)
    IN  IF "time" \notin reg THEN [self |-> s, err |-> "KeyError"]
        ELSE IF datenum.ndim = 0 THEN [self |-> s, err |-> "TypeError"]
        ELSE IF \E i \in 1..Len(stamps) : stamps[i].err # ""
        THEN [self |-> s, err |-> "ValueError"]
        ELSE [self |->
                [f \in DOMAIN s |->
                    IF f = "timestamp" THEN Array1D(stamps)
                    ELSE IF \E i \in 2..(stop - 1) : parameter_list[i] = f
                    THEN get_datagroup(s, datagroup_tags[
                             CHOOSE i \in 2..(stop - 1) : parameter_list[i] = f])
                    ELSE s[f]],
              err |-> IF missing = {} THEN "" ELSE "KeyError"]

AWIConstructDataGroups ==
    /\ source = "awi"
    /\ pc = "construct_data_groups"
    /\ LET r == ConstructDataGroups(self)
       IN  /\ self' = r.self
           /\ IF r.err # ""
              THEN Fail(r.err)
              ELSE pc' = "done" /\ outcome' = "ok" /\ returned' = TRUE
    /\ UNCHANGED <<source, file, julian, cal, stamp>>

(***************************************************************************)
(* NASAJPLOrbitThickness: the text record parser                            *)
(***************************************************************************)
n_header_lines == 3
water_density == 1024
default_ice_density == 920

\* a line is its tokens, numbers unless numeric is FALSE; token 3, the
\* seconds of the day, is held in milliseconds
LineSamples ==
    { [numeric |-> TRUE,  tokens |-> <<2014, 90, 2319500, 80, 10, 2, 1, 300>>],
      [numeric |-> TRUE,  tokens |-> <<2015, 0, 86399999, 81, 11, 3, 0, 320, 7>>],
      [numeric |-> TRUE,  tokens |-> <<2014, 90, 2320000, 80, 10>>],
      [numeric |-> FALSE, tokens |-> <<2014, 90, 2321000, 80, 10, 2, 1, 300>>] }

TextFile(l) ==
    [name |-> <<"nasa">>, size |-> 0, flags |-> <<>>, fieldDef |-> <<>>,
     lines |-> l]

\* line 120: content[self.n_header_lines:]
Content(lines) ==
    IF Len(lines) <= n_header_lines THEN <<>>
    ELSE SubSeq(lines, n_header_lines + 1, Len(lines))

InitParameterGroupsShort(s, n, names) ==
    [f \in DOMAIN s |->
        IF \E i \in 1..Len(names) : names[i] = f
        THEN Array1D([j \in 1..(IF f = "ice_density" /\ n > 0 THEN n - 1 ELSE n) |->
                         IF f = "timestamp" THEN NoDatetime ELSE Uninit])
        ELSE s[f]]

\* lines 36-40: an object array starts as None, a float array as it comes
InitParameterGroups(s, n, names) ==
    [f \in DOMAIN s |->
        IF \E i \in 1..Len(names) : names[i] = f
        THEN Array1D([j \in 1..n |-> IF f = "timestamp" THEN NoDatetime ELSE Uninit])
        ELSE s[f]]

\* lines 131-135: datetime(year, 1, 1) + timedelta(days, seconds, microseconds)
LineTimestamp(t) ==
    LET seconds == t[3] \div 1000
        musecs  == (t[3] % 1000) * 1000
    IN  [err |-> "",
         day |-> DateToJDN(t[1], 1, 1) + t[2] + (seconds \div SecondsPerDay),
         sec |-> seconds % SecondsPerDay,
         us  |-> musecs]

line_fields ==
    <<"latitude", "longitude", "sea_ice_thickness", "snow_depth", "snow_density">>

\* lines 116-124
JPLReadFile ==
    /\ source = "nasa_jpl"
    /\ pc = "parse"
    /\ self' = InitParameterGroups(self, Len(Content(file.lines)), parameter_list)
    /\ Goto("lines")
    /\ UNCHANGED <<source, file, julian, cal, stamp>>

\* lines 126-142: one turn of the loop over the lines
JPLLine ==
    /\ source = "nasa_jpl"
    /\ pc = "lines"
    /\ self.n_read < Len(Content(file.lines))
    /\ LET i    == self.n_read + 1
           line == Content(file.lines)[i]
           t    == line.tokens
           nset == IF Len(t) - 3 > 5 THEN 5 ELSE Len(t) - 3
       IN  IF ~line.numeric
           THEN Fail("ValueError") /\ UNCHANGED self
           ELSE IF Len(t) < 3
           THEN Fail("IndexError") /\ UNCHANGED self
           ELSE IF t[1] \notin MINYEAR..MAXYEAR
           THEN Fail("ValueError") /\ UNCHANGED self
           ELSE /\ self' =
                     [f \in DOMAIN self |->
                         IF f = "timestamp"
                         THEN [self[f] EXCEPT !.vals[i] = LineTimestamp(t)]
                         ELSE IF \E j \in 1..nset : line_fields[j] = f
                         THEN [self[f] EXCEPT !.vals[i] =
                                  t[3 + (CHOOSE j \in 1..nset : line_fields[j] = f)]]
                         ELSE IF f = "n_read" /\ nset = 5 THEN i
                         ELSE self[f]]
                /\ IF nset < 5 THEN Fail("IndexError") ELSE Goto("lines")
    /\ UNCHANGED <<source, file, julian, cal, stamp>>

FillNothing(a, v) == a

\* line 145: array[:] = v
Fill(a, v) == [a EXCEPT !.vals = [j \in 1..Len(a.vals) |-> v]]

\* lines 126, 145: the loop ends, the ice density is filled in
JPLFill ==
    /\ source = "nasa_jpl"
    /\ pc = "lines"
    /\ self.n_read >= Len(Content(file.lines))
    /\ self' = [self EXCEPT !.ice_density = Fill(self.ice_density, default_ice_density)]
    /\ pc' = "done"
    /\ outcome' = "ok"
    /\ returned' = TRUE
    /\ UNCHANGED <<source, file, julian, cal, stamp>>

(***************************************************************************)
(* The calendar converter on its own: one value through _get_datetime       *)
(***************************************************************************)
NoJulian == [day |-> 0, sec |-> 0, ms |-> 0]
NoCal == [year |-> 0, yearday |-> 0, month |-> 0, day |-> 0,
          hour |-> 0, minute |-> 0, second |-> 0, msec |-> 0]
NoFile == [name |-> <<>>, size |-> 0, flags |-> <<>>, fieldDef |-> <<>>,
           lines |-> <<>>]

DayInputs ==
    (0..MaxDay) \cup (JulianThreshold - 3)..(JulianThreshold + MaxDay)
    \cup 36582..36585 \cup 73107..73109 \cup 2451603..2451605
    \cup 2488127..2488129 \cup {41728}

SecInputs == {0, 59, 3599, 3600, 43199, 43200, 86340, 86399}
MsInputs == {0, 1, 499, 500, 700, 999}
TimedDays == {0, 59, 41728, JulianThreshold}

JulianInputs ==
    { [day |-> d, sec |-> 0, ms |-> 0] : d \in DayInputs }
    \cup { [day |-> d, sec |-> s, ms |-> m] :
             d \in TimedDays, s \in SecInputs, m \in MsInputs }

\* line 259
CalCaldate ==
    /\ source = "caldate"
    /\ pc = "caldate_1900"
    /\ cal' = caldate_1900(julian)
    /\ Goto("datetime")
    /\ UNCHANGED <<source, file, self, julian, stamp>>

\* lines 260-269
CalDatetime ==
    /\ source = "caldate"
    /\ pc = "datetime"
    /\ stamp' = MakeDatetime(cal)
    /\ pc' = "done"
    /\ outcome' = IF stamp'.err = "" THEN "ok" ELSE stamp'.err
    /\ returned' = (stamp'.err = "")
    /\ UNCHANGED <<source, file, self, julian, cal>>

(***************************************************************************)
(* Specifications                                                           *)
(***************************************************************************)
InitAWI ==
    /\ source = "awi"
    /\ \E a \in SUBSET (0..(MaxSlot - 1)), n \in FileNames, fd \in FieldDefs :
          \E sz \in FileSizes(Cardinality(a)) : file = BinaryFile(n, sz, a, fd)
    /\ self = [NewObject EXCEPT !.filename = file.name]
    /\ pc = "parse_filename"
    /\ outcome = ""
    /\ returned = FALSE
    /\ julian = NoJulian
    /\ cal = NoCal
    /\ stamp = NoDatetime

InitJPL ==
    /\ source = "nasa_jpl"
    /\ \E n \in 0..MaxLines : \E l \in [1..n -> LineSamples] : file = TextFile(l)
    /\ self = [NewObject EXCEPT !.filename = file.name]
    /\ pc = "parse"
    /\ outcome = ""
    /\ returned = FALSE
    /\ julian = NoJulian
    /\ cal = NoCal
    /\ stamp = NoDatetime

InitCal ==
    /\ source = "caldate"
    /\ file = NoFile
    /\ self = NewObject
    /\ pc = "caldate_1900"
    /\ outcome = ""
    /\ returned = FALSE
    /\ julian \in JulianInputs
    /\ cal = NoCal
    /\ stamp = NoDatetime

NextAWI ==
    \/ AWIParseFilename
    \/ AWIParseHeader
    \/ AWIGetNRecords
    \/ AWIConstructDatagroups
    \/ AWIReadRecord
    \/ AWIParseContentEnd
    \/ AWICreateAttributes
    \/ AWIConstructDataGroups

NextJPL ==
    \/ JPLReadFile
    \/ JPLLine
    \/ JPLFill

NextCal ==
    \/ CalCaldate
    \/ CalDatetime

SpecAWI == InitAWI /\ [][NextAWI]_vars
SpecJPL == InitJPL /\ [][NextJPL]_vars
SpecCal == InitCal /\ [][NextCal]_vars

Init == InitAWI \/ InitJPL
Next == NextAWI \/ NextJPL
Spec == Init /\ [][Next]_vars

(***************************************************************************)
(* Properties                                                               *)
(***************************************************************************)
Done == pc = "done"

\* the positions of the nonzero content flags of the file's header
ActivePositions == {p \in 0..(NFlags - 1) : file.flags[p] # 0}

\* the field names the file's records carry under its field definition
FileFieldNames ==
    {file.fieldDef[p + 1] : p \in {q \in ActivePositions : q < Len(file.fieldDef)}}

FileNameValid == Len(file.name) >= 2 /\ file.name[2] = "021093"

ValidBinaryFile ==
    /\ source = "awi"
    /\ FileNameValid
    /\ file.size >= 106
    /\ Cardinality(ActivePositions) >= 1
    /\ \A p \in ActivePositions : p < Len(file.fieldDef)
    /\ \A i \in 1..7 : datagroup_tags[i] \in FileFieldNames

SevenParameters ==
    {"timestamp", "longitude", "latitude", "sea_ice_thickness",
     "ice_density", "snow_depth", "snow_density"}

\* C1: for every valid binary file (size >= 106, k >= 1 nonzero flags that
\* include the seven required fields, field definition long enough) the
\* construction succeeds and n_records = floor((file_size - 106) / (k * 8)),
\* for every record count, one record and a truncated last record included.
C1_RecordCount ==
    (ValidBinaryFile /\ Done) =>
        /\ outcome = "ok"
        /\ returned
        /\ n_records(self) =
               (file.size - 106) \div (Cardinality(ActivePositions) * 8)

\* C2: in every record set either parser returns, each of the seven parameter
\* arrays is one-dimensional and as long as n_records = len(longitude).
C2_ArrayLengths ==
    returned =>
        /\ n_records(self) # NoLen
        /\ \A f \in SevenParameters :
              /\ self[f].ndim = 1
              /\ Len(self[f].vals) = n_records(self)

C2_Witness ==
    /\ source = "awi"
    /\ returned
    /\ n_records(self) = 2
    /\ Len(self.timestamp.vals) = 2

\* C3: matrix column i is registered under the name the field definition has
\* at the i-th nonzero flag position (ascending): the lookup is by the
\* absolute flag position, not by the column index.
C3_ColumnNames ==
    (source = "awi" /\ self.data_allocated) =>
        /\ DOMAIN self.registered_datagroups = FileFieldNames
        /\ \A p \in ActivePositions :
              self.registered_datagroups[file.fieldDef[p + 1]] =
                  Cardinality({q \in ActivePositions : q < p})

C3_Witness ==
    /\ source = "awi"
    /\ self.data_allocated
    /\ ActivePositions = {2, 5, 7}
    /\ file.fieldDef[3] = "lat"
    /\ self.registered_datagroups["lat"] = 0
    /\ self.registered_datagroups["sd"] = 1
    /\ self.registered_datagroups["frb"] = 2

Populated(f) ==
    /\ self[f].ndim = 1
    /\ \A i \in 1..Len(self[f].vals) :
          IF f = "timestamp"
          THEN self[f].vals[i].err = ""
          ELSE self[f].vals[i] # Uninit

\* C4: a construction ends either with an error and no record set, or with a
\* record set whose seven parameters are all populated arrays; a record set
\* with a parameter unset or partly filled is never returned.
C4_AllOrNothing ==
    /\ returned => (Done /\ outcome = "ok")
    /\ Done => \/ (~returned /\ outcome \notin {"", "ok"})
               \/ (returned /\ outcome = "ok"
                     /\ \A f \in SevenParameters : Populated(f))

C4_Witness ==
    /\ source = "nasa_jpl"
    /\ Done
    /\ returned
    /\ n_records(self) = 2
    /\ \A f \in SevenParameters : Populated(f)

\* C5: for a binary file shorter than the 106-byte header the decoder raises
\* the error while parsing the header: the record count is never computed,
\* the matrix never allocated, no record read.
C5_ShortHeader ==
    (source = "awi" /\ file.size < 106) =>
        /\ pc \in {"parse_filename", "parse_header", "done"}
        /\ Done => outcome \notin {"", "ok"}
        /\ (Done /\ FileNameValid) => outcome = "struct.error"
        /\ self.file_size = NoneInt
        /\ self.nrecs = NoneInt
        /\ ~self.data_allocated
        /\ self.n_read = 0

C5_Witness ==
    /\ source = "awi"
    /\ file.size = 50
    /\ Done
    /\ outcome = "struct.error"
    /\ self.lat_limit
    /\ self.nrecs = NoneInt

\* C6: the calendar converter has no error conditions: for every day and
\* every fraction of a day the fields are in range (hour 0..23, minute 0..59,
\* second 0..59, sub-second part below one second) and the timestamp is built.
C6_FieldsInRange ==
    (source = "caldate" /\ pc \in {"datetime", "done"}) =>
        /\ cal.hour \in 0..23
        /\ cal.minute \in 0..59
        /\ cal.second \in 0..59
        /\ cal.msec \in 0..999999
        /\ Done => outcome = "ok"

\* the Julian day number the claim assigns to the day count n
ClaimedJDN(n) == IF n < 2440000 THEN n + 2415021 ELSE n

\* C7: for every integer day count N, caldate_1900 returns the year, month and
\* day the proleptic Gregorian calendar gives Julian day number N' (N + 2415021
\* below 2440000, N otherwise); month in 1..12, day in 1..length of the month;
\* the day of the year follows the same leap-year rule.
C7_GregorianDate ==
    (source = "caldate" /\ pc \in {"datetime", "done"}) =>
        /\ cal.month \in 1..12
        /\ cal.day \in 1..DaysInMonth(cal.year, cal.month)
        /\ DateToJDN(cal.year, cal.month, cal.day) = ClaimedJDN(julian.day)
        /\ cal.yearday = DaysBeforeMonth(cal.year, cal.month) + cal.day

C7_Witness ==
    /\ source = "caldate"
    /\ Done
    /\ julian.day = 36583
    /\ cal.year = 2000
    /\ cal.month = 2
    /\ cal.day = 29
    /\ cal.yearday = 60

\* the outcome of the construction for a file of at most 106 bytes or without
\* a nonzero flag, by the first step that fails
C8_Outcome ==
    IF Len(file.name) < 2 THEN "IndexError"
    ELSE IF ~FileNameValid THEN "ValueError"
    ELSE IF file.size < 106 THEN "struct.error"
    ELSE IF ActivePositions = {} THEN "ZeroDivisionError"
    ELSE IF \E p \in ActivePositions : p >= Len(file.fieldDef) THEN "IndexError"
    ELSE IF \E i \in 1..7 : datagroup_tags[i] \notin FileFieldNames THEN "KeyError"
    ELSE "ok"

\* C8: with a file of at most 106 bytes, or no nonzero content flag, the
\* decoder fails or yields zero records, the outcome is a function of the
\* input, and no data record is ever read.
C8_NoRecords ==
    (source = "awi" /\ (file.size <= 106 \/ ActivePositions = {})) =>
        /\ self.n_read = 0
        /\ Done => /\ outcome = C8_Outcome
                   /\ outcome = "ok" => (returned /\ n_records(self) = 0)
                   /\ outcome # "ok" => ~returned

C8_Witness ==
    /\ source = "awi"
    /\ file.size = 106
    /\ Done
    /\ returned
    /\ n_records(self) = 0
    /\ self.n_datagroups = 7

\* C9: for every text file parsed, whatever its record count (zero included),
\* ice_density has n_records elements and every one of them is 920.0.
C9_IceDensity ==
    (source = "nasa_jpl" /\ returned) =>
        /\ self.ice_density.ndim = 1
        /\ Len(self.ice_density.vals) = n_records(self)
        /\ n_records(self) =
               (IF Len(file.lines) > 3 THEN Len(file.lines) - 3 ELSE 0)
        /\ \A i \in 1..Len(self.ice_density.vals) : self.ice_density.vals[i] = 920

C9_Witness ==
    /\ source = "nasa_jpl"
    /\ returned
    /\ Len(file.lines) = 5
    /\ self.ice_density.vals = <<920, 920>>

\* the timestamp minus the input instant shifted by 12 hours, in microseconds
C10_Deviation ==
    LET s    == julian.sec + 12 * 3600
        day0 == ClaimedJDN(julian.day) + (s \div 86400)
        sec0 == s % 86400
    IN  ((stamp.day - day0) * 86400 + (stamp.sec - sec0)) * 1000000
            + (stamp.us - julian.ms * 1000)

\* C10: the timestamp _get_datetime assembles (the rounded second plus the
\* sub-second part taken from the unrounded value) differs from the input
\* instant shifted by 12 hours by less than half a second.
C10_HalfSecond ==
    (source = "caldate" /\ Done /\ outcome = "ok") =>
        (C10_Deviation < 500000 /\ C10_Deviation > -500000)

====
